---- MODULE Spec2Model ----
(***************************************************************************)
(* Entitlement engine of area-membros-vip (src/server.js, current          *)
(* revision: lines 1-1286): the PerfectPay webhook that records access     *)
(* grants in the user_access table, the debug route that inserts a grant   *)
(* by hand, the revocation route, the catalog routes that create, update   *)
(* and delete products, and the two queries: check-access and the          *)
(* user-products listing that marks the products an email owns.            *)
(*                                                                         *)
(* Node runs one callback at a time, so each synchronous handler body and  *)
(* each sqlite3 callback is one atomic step; callbacks of different        *)
(* requests interleave freely.  A store call and the callback that         *)
(* receives its result are one step: the statement runs at some moment     *)
(* between its dispatch and its callback, and nothing of the request       *)
(* happens in between.                                                     *)
(***************************************************************************)
EXTENDS Integers, Sequences, FiniteSets, TLC

\* ------------------------------------------------------------------ bounds
NumReq == 2        \* requests that can be in flight at the same time
MaxGrants == 2     \* rows the user_access table can hold in the model

\* --------------------------------------------------------- JavaScript values
Undefined == "<undefined>"
Null == "<null>"
NoId == 0          \* no row / no access_id (AUTOINCREMENT ids start at 1)

\* !v for the values a payload field takes here (string or undefined)
Falsy(v) == v \in {Undefined, Null, ""}

\* ------------------------------------------------------------------- inputs
Req == 1..NumReq

StatusVals == {Undefined, "approved", "pending", "declined"}
EmailVals == {Undefined, "", "a@b.com"}
PlanVals == {Undefined, "", "PPLQQLST6", "PX"}

ObjectBody(st, em, pc_, sale) ==
    [kind |-> "object", sale_status_enum_key |-> st, email |-> em,
     plan_code |-> pc_, plan_name |-> IF pc_ = Undefined THEN Undefined ELSE "Gold",
     sale_code |-> sale[1], sale_amount |-> sale[2]]

\* a body that is not a JSON object has none of the fields
OtherBody(k) ==
    [kind |-> k, sale_status_enum_key |-> Undefined, email |-> Undefined,
     plan_code |-> Undefined, plan_name |-> Undefined,
     sale_code |-> Undefined, sale_amount |-> Undefined]

\* an approved event with every combination of present, empty and absent
\* email and plan code; a second sale for the catalog plan; events without
\* status or with another status, complete and without customer and plan
Bodies ==
    {ObjectBody("approved", em, p, <<"PAY1", "99.9">>) :
        em \in EmailVals, p \in PlanVals}
    \cup {ObjectBody("approved", "a@b.com", "PPLQQLST6", <<"PAY2", "50">>)}
    \cup {ObjectBody(st, "a@b.com", "PPLQQLST6", <<"PAY1", "99.9">>) :
        st \in StatusVals \ {"approved"}}
    \cup {ObjectBody(st, Undefined, Undefined, <<"PAY1", "99.9">>) :
        st \in StatusVals \ {"approved"}}
    \cup {OtherBody(k) : k \in {"array", "absent", "null", "unparseable"}}

NoBody == OtherBody("none")

\* the handler's closure: the payload fields, product_code, and the err the
\* last store callback of the request received
Locals(body) == body @@ [product_code |-> Undefined, err |-> FALSE]

\* -------------------------------------------------------------------- state
VARIABLES
    products,      \* table products: sequence of rows, id = position
    user_access,   \* table user_access: sequence of rows, id = position
    pc,            \* per request: where its handler stands
    req,           \* per request: the payload and the handler's locals
    res,           \* per request: the response sent, NoRes before that
    product_media, \* table product_media: the rows in rowid order
    revisions      \* the user_access tables of the older webhook revisions
                   \* run beside the current one, and the events they got

vars == <<products, user_access, pc, req, res, product_media, revisions>>

\* the revisions of the webhook handler kept beside the current one: the one
\* that inserts without looking up (server.js 2068-2148), the one that
\* looks up and inserts anyway (server.js 2715-2856), and the one of
\* unnamed/part_000 (362-490)
Revisions == {"insert_only", "lookup_then_insert", "part_000"}

NoRes == [status |-> 0, success |-> FALSE, message |-> "", access_id |-> NoId,
          plan |-> Undefined, email |-> Undefined, plan_code |-> Undefined]

Response(st, ok, msg) ==
    [status |-> st, success |-> ok, message |-> msg, access_id |-> NoId,
     plan |-> Undefined, email |-> Undefined, plan_code |-> Undefined]

\* rows inserted by the sample-data block when the products table is empty
SampleProducts ==
    << [id |-> 1, category |-> "meus_produtos", plano_1 |-> "PPLQQLST6",
        plano_2 |-> Null, plano_3 |-> Null],
       [id |-> 2, category |-> "mais_vendidos", plano_1 |-> "PPLQQLST7",
        plano_2 |-> Null, plano_3 |-> Null] >>

Init ==
    /\ products = SampleProducts
    /\ user_access = << >>
    /\ pc = [r \in Req |-> "idle"]
    /\ req = [r \in Req |-> Locals(NoBody)]
    /\ res = [r \in Req |-> NoRes]
    /\ product_media = << >>
    /\ revisions = [fed |-> 0, store |-> [rev \in Revisions |-> << >>]]

\* ------------------------------------------------------------ store queries
Range(s) == {s[i] : i \in DOMAIN s}

NoRow == [id |-> NoId]

\* SELECT * FROM products WHERE plano_1 = ? OR plano_2 = ? OR plano_3 = ?
\* LIMIT 1: without ORDER BY any matching row may come back
ProductLookupNone(code) == {NoRow}
ProductLookup(code) ==
    LET hit == {p \in Range(products) :
                    p.plano_1 = code \/ p.plano_2 = code \/ p.plano_3 = code}
    IN  IF hit = {} THEN {NoRow} ELSE hit

\* SELECT * FROM user_access WHERE email = ? AND plan_code = ? AND
\* status = 'active' ORDER BY created_at DESC LIMIT 1.  created_at has a
\* resolution of one second, so any active row of the pair can be the latest.
ActiveIdsAnyStatus(table, email, code) ==
    {i \in DOMAIN table : /\ table[i].email = email
                          /\ table[i].plan_code = code}
ActiveIds(table, email, code) ==
    {i \in DOMAIN table : /\ table[i].email = email
                          /\ table[i].plan_code = code
                          /\ table[i].status = "active"}

ActiveGrantLookupNone(email, code) == {NoId}
ActiveGrantLookup(email, code) ==
    LET hit == ActiveIds(user_access, email, code)
    IN  IF hit = {} THEN {NoId} ELSE hit

GrantRow(email, product_code, code, name, amount, payment) ==
    [email |-> email, product_code |-> product_code, plan_code |-> code,
     plan_name |-> name, sale_amount |-> amount, payment_id |-> payment,
     status |-> "active"]

\* --------------------------------------------------------- request plumbing
Finish(r, response) ==
    /\ pc' = [pc EXCEPT ![r] = "done"]
    /\ res' = [res EXCEPT ![r] = response]

\* express.json(): what the handler finds in req.body, or "error" when the
\* middleware hands a parse error to the error-handling middleware.  A body
\* that is not an object or array (null) is rejected in strict mode; a
\* request without body leaves {} (express 4) or undefined (express 5).
JsonMiddleware(kind) ==
    CASE kind = "object" -> {"object"}
      [] kind = "array" -> {"array"}
      [] kind = "absent" -> {"empty", "undefined"}
      [] kind = "null" -> {"error"}
      [] kind = "unparseable" -> {"error"}

\* app.use((error, req, res, next) => res.status(500)...)
ErrorMiddleware == Response(500, FALSE, "Erro interno do servidor")

\* ------------------------------------------------ POST /webhook/perfectpay
\* if (sale_status_enum_key !== 'approved')
StatusSkippedOnlyPending(status) == status = "pending"
StatusSkipped(status) == status # "approved"

\* if (!email || !plan_code)
RequiredMissingBoth(email, plan_code) == Falsy(email) /\ Falsy(plan_code)
RequiredMissing(email, plan_code) == Falsy(email) \/ Falsy(plan_code)

\* synchronous part of the handler, up to the dispatch of the product query
WebhookReceive(r, body) ==
    /\ pc[r] \in {"idle", "done"}
    /\ req' = [req EXCEPT ![r] = Locals(body)]
    /\ UNCHANGED <<product_media, revisions, products, user_access>>
    /\ \E parsed \in JsonMiddleware(body.kind) :
         IF parsed = "error"
           THEN Finish(r, ErrorMiddleware)
         ELSE IF parsed = "undefined"
           \* destructuring undefined throws, the catch block answers
           THEN Finish(r, Response(400, FALSE, "Dados invalidos"))
         ELSE IF StatusSkipped(body.sale_status_enum_key)
           THEN Finish(r, Response(200, TRUE, "Status nao processado"))
         ELSE IF RequiredMissing(body.email, body.plan_code)
           THEN Finish(r, Response(400, FALSE, "Email e codigo do plano sao obrigatorios"))
         ELSE /\ pc' = [pc EXCEPT ![r] = "product"]
              /\ res' = [res EXCEPT ![r] = NoRes]

\* callback of the product query
ProductCb(r, err) ==
    /\ pc[r] = "product"
    /\ UNCHANGED <<product_media, revisions, products, user_access>>
    /\ IF err
         THEN /\ Finish(r, Response(500, FALSE, "Erro interno"))
              /\ req' = [req EXCEPT ![r].err = TRUE]
         ELSE \* product_row?.id || plan_code, stored in a TEXT column
              /\ \E product_row \in ProductLookup(req[r].plan_code) :
                    req' = [req EXCEPT ![r].err = FALSE,
                                       ![r].product_code =
                                           IF product_row.id # NoId
                                           THEN ToString(product_row.id)
                                           ELSE req[r].plan_code]
              /\ pc' = [pc EXCEPT ![r] = "check"]
              /\ UNCHANGED res

\* callback of checkQuery: an error is only logged, existing is undefined
CheckCb(r, err) ==
    /\ pc[r] = "check"
    /\ req' = [req EXCEPT ![r].err = err]
    /\ UNCHANGED <<product_media, revisions, products, user_access>>
    /\ \E existing \in IF err THEN {NoId}
                       ELSE ActiveGrantLookup(req[r].email, req[r].plan_code) :
         IF existing # NoId
           THEN Finish(r, [Response(200, TRUE, "Acesso ja existente")
                              EXCEPT !.access_id = existing])
           ELSE /\ pc' = [pc EXCEPT ![r] = "insert"]
                /\ UNCHANGED res

\* insertQuery and its callback
InsertCb(r, err) ==
    /\ pc[r] = "insert"
    /\ req' = [req EXCEPT ![r].err = err]
    /\ UNCHANGED <<product_media, revisions, products>>
    /\ IF err
         THEN /\ Finish(r, Response(500, FALSE, "Erro interno"))
              /\ UNCHANGED user_access
         ELSE /\ Len(user_access) < MaxGrants
              /\ user_access' = Append(user_access,
                    GrantRow(req[r].email, req[r].product_code, req[r].plan_code,
                             req[r].plan_name, req[r].sale_amount, req[r].sale_code))
              /\ Finish(r, [Response(200, TRUE, "Acesso liberado com sucesso")
                              EXCEPT !.access_id = Len(user_access) + 1,
                                     !.plan = req[r].plan_name,
                                     !.email = req[r].email,
                                     !.plan_code = req[r].plan_code])

\* ------------------------------------------------ POST /debug/simulate-access
SimulateAccess(email, code, err) ==
    /\ UNCHANGED <<product_media, revisions, products, pc, req, res>>
    /\ IF Falsy(email) \/ Falsy(code) \/ err
         THEN UNCHANGED user_access
         ELSE /\ Len(user_access) < MaxGrants
              /\ user_access' = Append(user_access,
                    GrantRow(email, code, code, "Plano Teste", "99.99", "TEST_1"))

\* ------------------------------------------- DELETE /api/revoke-access/:id
RevokeAccessDeletes(accessId, err) ==
    /\ UNCHANGED <<product_media, revisions, products, pc, req, res>>
    /\ IF err \/ accessId \notin DOMAIN user_access
         THEN UNCHANGED user_access
         ELSE user_access' = [i \in 1..(Len(user_access) - 1) |->
                                IF i < accessId THEN user_access[i]
                                                ELSE user_access[i + 1]]

\* UPDATE user_access SET status = "revoked" WHERE id = ?
RevokeAccess(accessId, err) ==
    /\ UNCHANGED <<product_media, revisions, products, pc, req, res>>
    /\ IF err \/ accessId \notin DOMAIN user_access
         THEN UNCHANGED user_access
         ELSE user_access' = [user_access EXCEPT ![accessId].status = "revoked"]

\* ------------------------------------------------------------ specifications
\* a webhook delivery takes its next step; errs are the outcomes the store
\* calls can have
WebhookStep(r, errs) ==
    \/ \E body \in Bodies : WebhookReceive(r, body)
    \/ \E err \in errs : ProductCb(r, err)
    \/ \E err \in errs : CheckCb(r, err)
    \/ \E err \in errs : InsertCb(r, err)

Simulate == \E email \in EmailVals, code \in PlanVals, err \in BOOLEAN :
                SimulateAccess(email, code, err)

Revoke == \E accessId \in 1..(MaxGrants + 1), err \in BOOLEAN :
                RevokeAccess(accessId, err)

\* no request is between its arrival and its response
Quiet == \A r \in Req : pc[r] \in {"idle", "done"}

\* the requests that can step when requests come one at a time over one
\* connection: no other request was ever opened
Alone == {r \in Req : \A q \in Req \ {r} : pc[q] = "idle"}

\* the server: requests interleave at the callbacks
Next ==
    \/ \E r \in Req : WebhookStep(r, BOOLEAN)
    \/ Simulate
    \/ Revoke

Spec == Init /\ [][Next]_vars

\* one request after the other, each finished before the next starts
NextSerial ==
    \/ \E r \in Alone : WebhookStep(r, BOOLEAN)
    \/ Quiet /\ Simulate
    \/ Quiet /\ Revoke

SerialSpec == Init /\ [][NextSerial]_vars

\* webhook deliveries only, one after the other, the store never failing
NextReplay == \E r \in Alone : WebhookStep(r, {FALSE})

ReplaySpec == Init /\ [][NextReplay]_vars

\* webhook deliveries only, concurrent, the store never failing
NextRace == \E r \in Req : WebhookStep(r, {FALSE})

RaceSpec == Init /\ [][NextRace]_vars

TypeOK ==
    /\ Len(user_access) <= MaxGrants
    /\ \A r \in Req : pc[r] \in {"idle", "product", "check", "insert", "done",
                                "access", "user_access", "all_products",
                                "products"}

\* ------------------------------------------------------------------ catalog
MaxProducts == 3   \* rows the products table ever held in the model

\* the place of a deleted row: AUTOINCREMENT never hands its id out again
NoProduct == [id |-> NoId, category |-> Null, plano_1 |-> Null,
              plano_2 |-> Null, plano_3 |-> Null]

\* the rows the table holds
Live == {p \in Range(products) : p.id # NoId}

\* v || d
Or(v, d) == IF Falsy(v) THEN d ELSE v

\* a request body without gallery (an absent and an empty gallery are
\* skipped alike by gallery && gallery.length > 0)
ProductBody(name, category, p1, p2, p3) ==
    [name |-> name, category |-> category,
     plano_1 |-> p1, plano_2 |-> p2, plano_3 |-> p3, gallery |-> << >>]

\* a product sharing plan PPLQQLST6 with sample product 1 and declaring PX in
\* its second slot; a product with an empty first slot, PX in the second and
\* PPLQQLST6 in the third, without category; a body without name
ProductBodies ==
    { ProductBody("Curso", "mais_vendidos", "PPLQQLST6", "PX", ""),
      ProductBody("Bonus", "", "", "PX", "PPLQQLST6"),
      ProductBody(Undefined, "bonus", "PX", Undefined, Undefined) }

\* the parameters of the INSERT and of the UPDATE
ProductRow(id, body) ==
    [id |-> id, category |-> Or(body.category, "meus_produtos"),
     plano_1 |-> Or(body.plano_1, Null), plano_2 |-> Or(body.plano_2, Null),
     plano_3 |-> Or(body.plano_3, Null)]

MaxMedia == 3      \* rows the product_media table can hold in the model

\* an item of a gallery array; type and url are strings kept as the sequence
\* of their characters (a run of characters that plays no part in the
\* encoding is one element), an absent or empty string is << >>
MediaItem(type, url) == [type |-> type, url |-> url]

\* gallery.forEach((item, index) => { if (item.url && item.type) INSERT
\* (productId, item.type, item.url, index) })
MediaRows(productId, gallery) ==
    {[product_id |-> productId, type |-> gallery[i].type,
      url |-> gallery[i].url, order_index |-> i - 1] :
        i \in {j \in DOMAIN gallery :
                    gallery[j].url # << >> /\ gallery[j].type # << >>}}

\* the db.run calls of the forEach are queued without db.serialize: the
\* rows can be written in any order
Orders(rows) ==
    {s \in [1..Cardinality(rows) -> rows] :
        \A i, j \in 1..Cardinality(rows) : s[i] = s[j] => i = j}

\* POST /api/products
CreateProduct(body, err) ==
    /\ UNCHANGED <<user_access, pc, req, res, revisions>>
    /\ IF Falsy(body.name) \/ err
         THEN UNCHANGED <<products, product_media>>
         ELSE /\ Len(products) < MaxProducts
              /\ products' = Append(products, ProductRow(Len(products) + 1, body))
              /\ \E rows \in Orders(MediaRows(Len(products) + 1, body.gallery)) :
                    /\ Len(product_media) + Len(rows) <= MaxMedia
                    /\ product_media' = product_media \o rows

\* PUT /api/products/:id
UpdateProduct(productId, body, err) ==
    /\ UNCHANGED <<user_access, pc, req, res, revisions>>
    /\ IF Falsy(body.name) \/ err \/ productId \notin {p.id : p \in Live}
         THEN UNCHANGED <<products, product_media>>
         ELSE /\ products' = [products EXCEPT ![productId] = ProductRow(productId, body)]
              \* DELETE FROM product_media WHERE product_id = ? and the
              \* forEach of the new gallery are queued in the same tick
              \* without db.serialize: an INSERT that runs before the
              \* DELETE loses its row
              /\ \E written \in SUBSET MediaRows(productId, body.gallery) :
                 \E rows \in Orders(written) :
                    LET kept == SelectSeq(product_media,
                                    LAMBDA row : row.product_id # productId)
                    IN  /\ Len(kept) + Len(rows) <= MaxMedia
                        /\ product_media' = kept \o rows

\* DELETE /api/products/:id
DeleteProductRevokesGrants(productId, err) ==
    /\ UNCHANGED <<pc, req, res, revisions>>
    /\ IF err \/ productId \notin {p.id : p \in Live}
         THEN UNCHANGED <<products, product_media, user_access>>
         ELSE /\ products' = [products EXCEPT ![productId] = NoProduct]
              /\ UNCHANGED product_media
              /\ user_access' =
                    [i \in DOMAIN user_access |->
                        IF user_access[i].product_code = ToString(productId)
                          THEN [user_access[i] EXCEPT !.status = "revoked"]
                          ELSE user_access[i]]

DeleteProduct(productId, err) ==
    /\ UNCHANGED <<user_access, pc, req, res, revisions>>
    /\ IF err \/ productId \notin {p.id : p \in Live}
         THEN UNCHANGED <<products, product_media>>
         \* the statement names products only; product_media declares ON
         \* DELETE CASCADE, but the connection never runs PRAGMA
         \* foreign_keys = ON, so SQLite does not enforce it
         ELSE /\ products' = [products EXCEPT ![productId] = NoProduct]
              /\ UNCHANGED product_media

\* ------------------------------------------------------ gallery assembly
Q == "\""          \* the double quote
Backslash == "\\"

\* the text json_object() writes for a string: quoted, with the quote and
\* the backslash escaped
JsonString(s) ==
    LET Escaped[i \in 0..Len(s)] ==
            IF i = 0 THEN << >>
            ELSE IF s[i] \in {Q, Backslash}
                   THEN Escaped[i - 1] \o <<Backslash, s[i]>>
                   ELSE Append(Escaped[i - 1], s[i])
    IN  <<Q>> \o Escaped[Len(s)] \o <<Q>>

\* a column value: NULL, INTEGER or TEXT
SqlNull == [null |-> TRUE]
SqlInteger(n) == [integer |-> n]
SqlText(s) == [text |-> s]

\* the text json_object() writes for a column value
JsonValue(v) ==
    IF "null" \in DOMAIN v THEN <<"null">>
    ELSE IF "integer" \in DOMAIN v THEN <<ToString(v.integer)>>
    ELSE JsonString(v.text)

\* json_object('type', pm.type, 'url', pm.url, 'order_index', pm.order_index)
json_object(type, url, order_index) ==
    <<"{">> \o JsonString(<<"type">>) \o <<":">> \o JsonValue(type) \o <<",">>
            \o JsonString(<<"url">>) \o <<":">> \o JsonValue(url) \o <<",">>
            \o JsonString(<<"order_index">>) \o <<":">> \o JsonValue(order_index)
            \o <<"}">>

\* ORDER BY pm.order_index: the k-th row is the one with k - 1 rows below it
\* (the rows of a product have distinct ordinals)
OrderByIndex(rows) ==
    [k \in 1..Cardinality(rows) |->
        CHOOSE row \in rows :
            Cardinality({other \in rows :
                            other.order_index < row.order_index}) = k - 1]

\* the media rows the LEFT JOIN pairs with a product, in ORDER BY
\* pm.order_index; a product without media is paired with one row of NULLs
JoinedMedia(productId) ==
    LET rows == {row \in Range(product_media) : row.product_id = productId}
    IN  IF rows = {}
          THEN <<[type |-> SqlNull, url |-> SqlNull, order_index |-> SqlNull]>>
          ELSE [row \in DOMAIN OrderByIndex(rows) |->
                    [type |-> SqlText(OrderByIndex(rows)[row].type),
                     url |-> SqlText(OrderByIndex(rows)[row].url),
                     order_index |-> SqlInteger(OrderByIndex(rows)[row].order_index)]]

\* GROUP_CONCAT(json_object(...) ORDER BY pm.order_index) as gallery_json:
\* the objects joined by commas
gallery_json(productId) ==
    LET rows == JoinedMedia(productId)
        Joined[i \in 1..Len(rows)] ==
            LET object == json_object(rows[i].type, rows[i].url,
                                      rows[i].order_index)
            IN  IF i = 1 THEN object ELSE Joined[i - 1] \o <<",">> \o object
    IN  Joined[Len(rows)]

\* galleryString.split('},{')
RECURSIVE SplitFrom(_, _, _)
SplitFrom(s, i, piece) ==
    IF i > Len(s) THEN <<piece>>
    ELSE IF i + 2 <= Len(s) /\ s[i] = "}" /\ s[i + 1] = "," /\ s[i + 2] = "{"
      THEN <<piece>> \o SplitFrom(s, i + 3, << >>)
      ELSE SplitFrom(s, i + 1, Append(piece, s[i]))

Split(galleryString) == SplitFrom(galleryString, 1, << >>)

\* .map((item, index, arr) => ...): the braces the split took away
Rebrace(arr) ==
    [index \in DOMAIN arr |->
        IF index = 1 /\ Len(arr) > 1 THEN Append(arr[index], "}")
        ELSE IF index = Len(arr) /\ Len(arr) > 1 THEN <<"{">> \o arr[index]
        ELSE IF Len(arr) > 1 THEN <<"{">> \o arr[index] \o <<"}">>
        ELSE arr[index]]

NoParse == [ok |-> FALSE, next |-> 0]

\* JSON.parse reading a string whose opening quote is before position i
RECURSIVE ReadString(_, _, _)
ReadString(s, i, value) ==
    IF i > Len(s) THEN NoParse
    ELSE IF s[i] = Q THEN [ok |-> TRUE, value |-> value, next |-> i + 1]
    ELSE IF s[i] = Backslash
      THEN IF i + 1 <= Len(s) /\ s[i + 1] \in {Q, Backslash}
             THEN ReadString(s, i + 2, Append(value, s[i + 1]))
             ELSE NoParse
      ELSE ReadString(s, i + 1, Append(value, s[i]))

\* JSON.parse reading a value at position i: null, a number or a string
ReadValue(s, i) ==
    IF i > Len(s) THEN NoParse
    ELSE IF s[i] = "null" THEN [ok |-> TRUE, value |-> Null, next |-> i + 1]
    ELSE IF \E n \in 0..9 : s[i] = ToString(n)
      THEN [ok |-> TRUE, value |-> CHOOSE n \in 0..9 : s[i] = ToString(n),
            next |-> i + 1]
    ELSE IF s[i] = Q THEN ReadString(s, i + 1, << >>)
    ELSE NoParse

\* JSON.parse reading "key":value at position i (the name is read once and
\* the value after it)
ReadMember(s, i, key) ==
    CHOOSE member \in
        { IF ~ name.ok THEN NoParse
          ELSE IF name.value # <<key>> THEN NoParse
          ELSE IF name.next > Len(s) THEN NoParse
          ELSE IF s[name.next] # ":" THEN NoParse
          ELSE ReadValue(s, name.next + 1) :
            name \in {IF i + 1 > Len(s) THEN NoParse
                      ELSE IF s[i] # Q THEN NoParse
                      ELSE ReadString(s, i + 1, << >>)} } : TRUE

\* the three members read one after the other, each where the one before
\* it ended
ReadMembers(item) ==
    UNION { UNION { { <<type, url, order_index>> :
                        order_index \in {ReadMember(item, url.next + 1,
                                                    "order_index")} } :
                    url \in {ReadMember(item, type.next + 1, "url")} } :
            type \in {ReadMember(item, 2, "type")} }

\* the object json_object() wrote, read back from its text
ReadObject(item) ==
    IF Len(item) = 0 THEN NoParse
    ELSE IF item[1] # "{" THEN NoParse
    ELSE IF \E <<type, url, order_index>> \in ReadMembers(item) :
                /\ type.ok /\ type.next <= Len(item) /\ item[type.next] = ","
                /\ url.ok /\ url.next <= Len(item) /\ item[url.next] = ","
                /\ order_index.ok /\ order_index.next = Len(item)
                /\ item[Len(item)] = "}"
      THEN [ok |-> TRUE, next |-> Len(item) + 1,
            value |-> CHOOSE value \in
                        {[type |-> type.value, url |-> url.value,
                          order_index |-> order_index.value] :
                            <<type, url, order_index>> \in ReadMembers(item)} :
                        TRUE]
      ELSE NoParse

\* JSON.parse(item) in its try/catch: the object json_object() wrote, or
\* not ok when the text is not JSON and the catch returns null (the pieces of
\* an object the split cut through end inside a string or begin with the
\* rest of one, and never are JSON)
JsonParse(item) == CHOOSE parsed \in {ReadObject(text) : text \in {item}} : TRUE

\* product.gallery as the row mapper builds it from gallery_json, which is
\* never empty: items.map(JSON.parse or null).filter(item => item !== null)
GalleryAllOrNothing(productId) ==
    LET items == Rebrace(Split(gallery_json(productId)))
    IN  IF \E i \in DOMAIN items : ~ JsonParse(items[i]).ok THEN << >>
        ELSE [i \in DOMAIN items |-> JsonParse(items[i]).value]
Gallery(productId) ==
    LET items == SelectSeq(Rebrace(Split(gallery_json(productId))),
                           LAMBDA item : JsonParse(item).ok)
    IN  [i \in DOMAIN items |-> JsonParse(items[i]).value]

\* { ...row } with product.gallery set and gallery_json deleted
WithGallery(row) == row @@ [gallery |-> Gallery(row.id)]

\* ---------------------------------------------------- POST /api/check-access
QueryEmails == {Undefined, "", "a@b.com", "c@d.com"}

CheckAccessLocals(email, plano_code) ==
    [kind |-> "check-access", email |-> email, plano_code |-> plano_code]

\* the products a grant row is joined with: those declaring its plan code
Declaring(code) ==
    {p.id : p \in {q \in Live : q.plano_1 = code \/ q.plano_2 = code
                                  \/ q.plano_3 = code}}

\* SELECT ua.*, p.name FROM user_access ua LEFT JOIN products p ON (...)
\* WHERE ua.email = ? AND ua.plan_code = ? AND ua.status = 'active': a grant
\* row no product declares comes back once, joined with nothing
AccessJoinInner(email, code) ==
    LET hit == {i \in DOMAIN user_access :
                    /\ user_access[i].email = email
                    /\ user_access[i].plan_code = code
                    /\ user_access[i].status = "active"}
    IN  {[id |-> i, product |-> p] : i \in hit, p \in Declaring(code)}
AccessJoin(email, code) ==
    LET hit == {i \in DOMAIN user_access :
                    /\ user_access[i].email = email
                    /\ user_access[i].plan_code = code
                    /\ user_access[i].status = "active"}
    IN  {[id |-> i, product |-> p] :
            i \in hit,
            p \in IF Declaring(code) = {} THEN {NoId} ELSE Declaring(code)}

\* ... ORDER BY ua.updated_at DESC, ua.created_at DESC LIMIT 1 (db.get): the
\* timestamps have a resolution of one second, any joined row can be first
AccessLookupNewestRow(email, code) ==
    LET newest == {row \in AccessJoin(email, code) : row.id = Len(user_access)}
    IN  IF newest = {} THEN {NoRow} ELSE newest
AccessLookup(email, code) ==
    IF AccessJoin(email, code) = {} THEN {NoRow} ELSE AccessJoin(email, code)

CheckAccessReceive(r, email, plano_code) ==
    /\ pc[r] \in {"idle", "done"}
    /\ req' = [req EXCEPT ![r] = CheckAccessLocals(email, plano_code)]
    /\ UNCHANGED <<product_media, revisions, products, user_access>>
    /\ IF Falsy(email) \/ Falsy(plano_code)
         THEN Finish(r, [status |-> 400, success |-> FALSE,
                         error |-> "Email e codigo do plano sao obrigatorios"])
         ELSE /\ pc' = [pc EXCEPT ![r] = "access"]
              /\ res' = [res EXCEPT ![r] = NoRes]

CheckAccessCb(r, err) ==
    /\ pc[r] = "access"
    /\ UNCHANGED <<product_media, revisions, products, user_access, req>>
    /\ IF err
         THEN Finish(r, [status |-> 500, success |-> FALSE,
                         error |-> "Erro interno"])
         ELSE \E row \in AccessLookup(req[r].email, req[r].plano_code) :
                IF row.id # NoId
                  THEN Finish(r, [status |-> 200, success |-> TRUE,
                                  hasAccess |-> TRUE, access |-> row,
                                  message |-> "Acesso liberado"])
                  ELSE Finish(r, [status |-> 200, success |-> TRUE,
                                  hasAccess |-> FALSE,
                                  message |-> "Acesso negado - Plano nao adquirido"])

\* --------------------------------------------------- POST /api/user/products
UserProductsLocals(email) ==
    [kind |-> "user-products", email |-> email, userAccess |-> {}]

\* SELECT DISTINCT plan_code, plan_name, created_at FROM user_access WHERE
\* email = ? AND status = 'active': the rows, kept as the plan codes they
\* carry (the handler reads nothing else of them)
AccessQueryAnyStatus(email) ==
    {user_access[i].plan_code :
        i \in {j \in DOMAIN user_access : user_access[j].email = email}}
AccessQuery(email) ==
    {user_access[i].plan_code :
        i \in {j \in DOMAIN user_access : /\ user_access[j].email = email
                                          /\ user_access[j].status = "active"}}

\* SELECT p.* FROM products p ... ORDER BY p.updated_at DESC, p.created_at
\* DESC: the rows of the table in the order of their timestamps, which any
\* timing of the catalog requests can make any order
AllProductsQueryNone == {<< >>}
AllProductsQuery ==
    {s \in [1..Cardinality(Live) -> Live] :
        \A i, j \in 1..Cardinality(Live) : s[i] = s[j] => i = j}

\* the slot comparison of the handler: hasUserAccess and accessPlan
MatchPlanFirstSlotOnly(product, userAccess) ==
    IF userAccess # {} /\ ~ Falsy(product.plano_1) /\ product.plano_1 \in userAccess
      THEN [hasUserAccess |-> TRUE, accessPlan |-> product.plano_1]
      ELSE [hasUserAccess |-> FALSE, accessPlan |-> Null]
MatchPlan(product, userAccess) ==
    IF userAccess = {} THEN [hasUserAccess |-> FALSE, accessPlan |-> Null]
    ELSE IF ~ Falsy(product.plano_1) /\ product.plano_1 \in userAccess
      THEN [hasUserAccess |-> TRUE, accessPlan |-> product.plano_1]
    ELSE IF ~ Falsy(product.plano_2) /\ product.plano_2 \in userAccess
      THEN [hasUserAccess |-> TRUE, accessPlan |-> product.plano_2]
    ELSE IF ~ Falsy(product.plano_3) /\ product.plano_3 \in userAccess
      THEN [hasUserAccess |-> TRUE, accessPlan |-> product.plano_3]
    ELSE [hasUserAccess |-> FALSE, accessPlan |-> Null]

\* product.userHasAccess = hasUserAccess; product.accessPlan = accessPlan
ProcessedFirstSlot(product, userAccess) ==
    WithGallery(product)
        @@ [userHasAccess |-> MatchPlan(product, userAccess).hasUserAccess,
            accessPlan |-> product.plano_1]
Processed(product, userAccess) ==
    WithGallery(product)
        @@ [userHasAccess |-> MatchPlan(product, userAccess).hasUserAccess,
            accessPlan |-> MatchPlan(product, userAccess).accessPlan]

\* { ...product, originalCategory: product.category, category: 'meus_produtos' }
OwnedCopyNativeCategory(product) ==
    product @@ [originalCategory |-> product.category]
OwnedCopy(product) ==
    [product EXCEPT !.category = "meus_produtos"]
        @@ [originalCategory |-> product.category]

ProcessedProducts(allProducts, userAccess) ==
    [i \in DOMAIN allProducts |-> Processed(allProducts[i], userAccess)]

\* the products pushed into userProducts while allProducts is mapped
UserProductsOf(processed) ==
    LET owned == SelectSeq(processed, LAMBDA p : p.userHasAccess)
    IN  [i \in DOMAIN owned |-> OwnedCopy(owned[i])]

\* the response of the handler; allProducts is mapped once
UserProductsResponse(email, userAccess, allProducts) ==
    CHOOSE response \in
        {[status |-> 200, success |-> TRUE,
          products |-> processed,
          userProducts |-> UserProductsOf(processed),
          totalProducts |-> Len(processed),
          userAccessCount |-> Len(UserProductsOf(processed)),
          userEmail |-> email,
          activePlans |-> userAccess] :
            processed \in {ProcessedProducts(allProducts, userAccess)}} : TRUE

UserProductsReceive(r, email) ==
    /\ pc[r] \in {"idle", "done"}
    /\ req' = [req EXCEPT ![r] = UserProductsLocals(email)]
    /\ UNCHANGED <<product_media, revisions, products, user_access>>
    /\ IF Falsy(email)
         THEN Finish(r, [status |-> 200, success |-> TRUE, products |-> << >>,
                         userProducts |-> << >>,
                         message |-> "Email e obrigatorio"])
         ELSE /\ pc' = [pc EXCEPT ![r] = "user_access"]
              /\ res' = [res EXCEPT ![r] = NoRes]

\* callback of accessQuery
UserAccessCbSilent(r, err) ==
    /\ pc[r] = "user_access"
    /\ UNCHANGED <<product_media, revisions, products, user_access>>
    /\ IF err
         THEN /\ pc' = [pc EXCEPT ![r] = "unanswered"]
              /\ UNCHANGED <<req, res>>
         ELSE /\ req' = [req EXCEPT ![r].userAccess = AccessQuery(req[r].email)]
              /\ pc' = [pc EXCEPT ![r] = "all_products"]
              /\ UNCHANGED res
UserAccessCb(r, err) ==
    /\ pc[r] = "user_access"
    /\ UNCHANGED <<product_media, revisions, products, user_access>>
    /\ IF err
         THEN /\ Finish(r, [status |-> 500, success |-> FALSE,
                            error |-> "Erro ao buscar acessos"])
              /\ UNCHANGED req
         ELSE /\ req' = [req EXCEPT ![r].userAccess = AccessQuery(req[r].email)]
              /\ pc' = [pc EXCEPT ![r] = "all_products"]
              /\ UNCHANGED res

\* callback of allProductsQuery
AllProductsCb(r, err) ==
    /\ pc[r] = "all_products"
    /\ UNCHANGED <<product_media, revisions, products, user_access, req>>
    /\ IF err
         THEN Finish(r, [status |-> 500, success |-> FALSE,
                         error |-> "Erro ao buscar produtos"])
         ELSE \E allProducts \in AllProductsQuery :
                Finish(r, UserProductsResponse(req[r].email, req[r].userAccess,
                                               allProducts))

\* --------------------------------------------------------- GET /api/products
ProductsLocals == [kind |-> "products"]

ProductsReceive(r) ==
    /\ pc[r] \in {"idle", "done"}
    /\ req' = [req EXCEPT ![r] = ProductsLocals]
    /\ pc' = [pc EXCEPT ![r] = "products"]
    /\ res' = [res EXCEPT ![r] = NoRes]
    /\ UNCHANGED <<product_media, revisions, products, user_access>>

\* callback of the query: rows.map(row => product with its gallery)
ProductsCb(r, err) ==
    /\ pc[r] = "products"
    /\ UNCHANGED <<product_media, revisions, products, user_access, req>>
    /\ IF err
         THEN Finish(r, [status |-> 500, success |-> FALSE,
                         error |-> "Erro interno do servidor"])
         ELSE \E rows \in AllProductsQuery :
                Finish(r, [status |-> 200, success |-> TRUE,
                           products |-> [i \in DOMAIN rows |->
                                            WithGallery(rows[i])]])

\* ------------------------------------------------- the query-side server
\* the response has been written: the request is over
Close(r) ==
    /\ pc[r] = "done"
    /\ pc' = [pc EXCEPT ![r] = "idle"]
    /\ req' = [req EXCEPT ![r] = Locals(NoBody)]
    /\ res' = [res EXCEPT ![r] = NoRes]
    /\ UNCHANGED <<product_media, revisions, products, user_access>>

\* a check-access or user-products request takes its next step
QueryStep(r, errs) ==
    \/ \E email \in QueryEmails, code \in PlanVals :
            CheckAccessReceive(r, email, code)
    \/ \E err \in errs : CheckAccessCb(r, err)
    \/ \E email \in EmailVals : UserProductsReceive(r, email)
    \/ \E err \in errs : UserAccessCb(r, err)
    \/ \E err \in errs : AllProductsCb(r, err)

Create == \E body \in ProductBodies, err \in BOOLEAN : CreateProduct(body, err)

Update == \E productId \in 1..MaxProducts, body \in ProductBodies,
             err \in BOOLEAN : UpdateProduct(productId, body, err)

Delete == \E productId \in 1..MaxProducts, err \in BOOLEAN :
             DeleteProduct(productId, err)

\* no request is open
Idle == \A r \in Req : pc[r] = "idle"

\* requests are numbered as they arrive: a new one takes the lowest number
\* that is free
Lowest(r) == pc[r] = "idle" => \A q \in Req : q < r => pc[q] # "idle"

\* the request that can step when requests come one at a time and each is
\* closed before the next arrives
First == {r \in Alone : pc[r] # "done" /\ Lowest(r)}

\* grants inserted and revoked by hand, catalog edits, and the two queries,
\* one request after the other
NextQuery ==
    \/ \E r \in First : QueryStep(r, BOOLEAN)
    \/ \E r \in Req : Close(r)
    \/ Idle /\ Simulate
    \/ Idle /\ Revoke
    \/ Idle /\ Create
    \/ Idle /\ Update
    \/ Idle /\ Delete

QuerySpec == Init /\ [][NextQuery]_vars

\* ------------------------------------------- deliveries against the catalog
\* the approved events with email and plan code of one sale
ApprovedBodies ==
    {body \in Bodies : /\ body.kind = "object"
                       /\ body.sale_status_enum_key = "approved"
                       /\ ~ Falsy(body.email)
                       /\ ~ Falsy(body.plan_code)
                       /\ body.sale_code = "PAY1"}

\* a delivery of such an event takes its next step
ApprovedStep(r, errs) ==
    \/ \E body \in ApprovedBodies : WebhookReceive(r, body)
    \/ \E err \in errs : ProductCb(r, err)
    \/ \E err \in errs : CheckCb(r, err)
    \/ \E err \in errs : InsertCb(r, err)

\* no answered request is waiting to be closed
Settled == \A r \in Req : pc[r] # "done"

\* concurrent deliveries of approved events, each closed as soon as it is
\* answered; revocations and catalog edits arrive while no request is open
NextResolve ==
    \/ \E r \in Req : Settled /\ ApprovedStep(r, BOOLEAN)
    \/ \E r \in Req : Close(r)
    \/ Idle /\ Revoke
    \/ Idle /\ Create
    \/ Idle /\ Delete

ResolveSpec == Init /\ [][NextResolve]_vars

\* deliveries of approved events, one after the other and each closed
\* before the next, products being created and deleted between them
NextCatalog ==
    \/ \E r \in First : ApprovedStep(r, BOOLEAN)
    \/ \E r \in Req : Close(r)
    \/ Idle /\ Create
    \/ Idle /\ Delete

CatalogSpec == Init /\ [][NextCatalog]_vars

\* ------------------------------------------- deliveries and access checks
\* the check-access requests for the pairs the approved events are about
CheckStep(r, errs) ==
    \/ \E body \in ApprovedBodies :
            CheckAccessReceive(r, body.email, body.plan_code)
    \/ \E err \in errs : CheckAccessCb(r, err)

\* the answers kept are those of at most one delivery
Kept ==
    /\ Cardinality({q \in Req : pc[q] = "done"}) <= 1
    /\ \A q \in Req : pc[q] = "done" => req[q].kind # "check-access"

\* r can step: no other request is between its arrival and its answer
Turn(r) ==
    /\ pc[r] # "done"
    /\ Lowest(r)
    /\ \A q \in Req \ {r} : pc[q] \in {"idle", "done"}
    /\ Kept

\* no request is between its arrival and its answer
Between == Quiet /\ Kept

\* deliveries of approved events, the store not failing on them, and
\* check-access requests, one after the other; the answer of one delivery
\* stays while the other requests run, every other answer is closed before
\* the next request; revocations and edits of the products the catalog
\* holds (update, delete) arrive between the requests
NextGrant ==
    \/ \E r \in Req : Turn(r) /\ ApprovedStep(r, {FALSE})
    \/ \E r \in Req : Turn(r) /\ CheckStep(r, BOOLEAN)
    \/ \E r \in Req : Close(r)
    \/ Between /\ Revoke
    \/ Between /\ Update
    \/ Between /\ Delete

GrantSpec == Init /\ [][NextGrant]_vars

\* ------------------------------------------------------------- the gallery
PlainUrl == <<"a">>
CommaUrl == <<"a", ",", "b">>
QuotedUrl == <<"a", Q, "b">>
DelimiterUrl == <<"a", "}", ",", "{", "b">>
Image == <<"image">>
Video == <<"video">>

GalleryBody(gallery) ==
    [ProductBody("Curso", "bonus", "PX", "", "") EXCEPT !.gallery = gallery]

\* galleries whose urls hold a comma, a quote or the text "},{" and one with
\* an item the forEach skips
GalleryBodies ==
    { GalleryBody(<<MediaItem(Image, PlainUrl), MediaItem(Video, CommaUrl),
                    MediaItem(Image, QuotedUrl)>>),
      GalleryBody(<<MediaItem(Video, DelimiterUrl)>>),
      GalleryBody(<<MediaItem(Image, PlainUrl), MediaItem(Video, DelimiterUrl),
                    MediaItem(Image, CommaUrl)>>),
      GalleryBody(<<MediaItem(Image, PlainUrl), MediaItem(<< >>, PlainUrl),
                    MediaItem(Video, CommaUrl)>>) }

CreateMedia == \E body \in GalleryBodies, err \in BOOLEAN :
                    CreateProduct(body, err)

\* the galleries of at most two rows
ShortGalleryBodies ==
    {body \in GalleryBodies : Cardinality(MediaRows(NoId, body.gallery)) <= 2}

\* a product created with a gallery gets a short one
UpdateMedia == \E productId \in (Len(SampleProducts) + 1)..MaxProducts,
                  body \in ShortGalleryBodies, err \in BOOLEAN :
                    UpdateProduct(productId, body, err)

\* a product-list or user-products request takes its next step
GalleryStep(r, errs) ==
    \/ ProductsReceive(r)
    \/ \E err \in errs : ProductsCb(r, err)
    \/ UserProductsReceive(r, "a@b.com")
    \/ \E err \in errs : UserAccessCb(r, err)
    \/ \E err \in errs : AllProductsCb(r, err)

\* products with galleries created, updated and deleted, and the two
\* routes that return galleries, one request after the other
NextMedia ==
    \/ \E r \in First : GalleryStep(r, BOOLEAN)
    \/ \E r \in Req : Close(r)
    \/ Idle /\ CreateMedia
    \/ Idle /\ UpdateMedia
    \/ Idle /\ Delete

MediaSpec == Init /\ [][NextMedia]_vars

\* ------------------------------------------ the older webhook revisions
\* the table of a revision after it handled an approved event with email
\* and plan code, no store call failing; product_row is the row its product
\* query returned
RevisionInsert(rev, store, event, product_row) ==
    CASE rev = "insert_only" ->
            \* product_row?.codigo_produto || plan_code: products has no
            \* such column; no look at the rows the table holds
            Append(store, GrantRow(event.email, event.plan_code,
                                   event.plan_code, event.plan_name,
                                   event.sale_amount, event.sale_code))
      [] rev = "lookup_then_insert" ->
            \* checkQuery is run and its result is not used
            Append(store, GrantRow(event.email,
                                   IF product_row.id # NoId
                                     THEN ToString(product_row.id)
                                     ELSE event.plan_code,
                                   event.plan_code, event.plan_name,
                                   event.sale_amount, event.sale_code))
      [] rev = "part_000" ->
            \* if (existing) return "Acesso ja existente"
            IF ActiveIds(store, event.email, event.plan_code) # {}
              THEN store
              ELSE Append(store, GrantRow(event.email,
                                          IF product_row.id # NoId
                                            THEN ToString(product_row.id)
                                            ELSE event.plan_code,
                                          event.plan_code, event.plan_name,
                                          event.sale_amount, event.sale_code))

\* the event request r delivered gets past the status and field tests,
\* which every revision makes alike
Handled(r) ==
    /\ req[r].kind = "object"
    /\ ~ StatusSkipped(req[r].sale_status_enum_key)
    /\ ~ RequiredMissing(req[r].email, req[r].plan_code)

\* the event request r delivered and the current revision answered is
\* delivered to each older revision, each with its own table, and the
\* request is over
Replay(r) ==
    /\ pc[r] = "done"
    /\ pc' = [pc EXCEPT ![r] = "idle"]
    /\ req' = [req EXCEPT ![r] = Locals(NoBody)]
    /\ res' = [res EXCEPT ![r] = NoRes]
    /\ UNCHANGED <<product_media, products, user_access>>
    /\ IF Handled(r)
         THEN \E product_row \in ProductLookup(req[r].plan_code) :
                revisions' =
                    [fed |-> revisions.fed + 1,
                     store |-> [rev \in Revisions |->
                                 RevisionInsert(rev, revisions.store[rev],
                                                req[r], product_row)]]
         ELSE UNCHANGED revisions

\* the same deliveries, one after the other and without store errors, to
\* the current revision and to the older ones
NextRevision ==
    \/ \E r \in First : revisions.fed < MaxGrants /\ WebhookStep(r, {FALSE})
    \/ \E r \in Req : Replay(r)

RevisionSpec == Init /\ [][NextRevision]_vars

\* ------------------------------------------------- requests to their answer
\* the store call request r waits for invokes its callback
Invoke(r, err) ==
    \/ ProductCb(r, err)
    \/ CheckCb(r, err)
    \/ InsertCb(r, err)
    \/ CheckAccessCb(r, err)
    \/ UserAccessCb(r, err)
    \/ AllProductsCb(r, err)

\* with or without error
Callback(r) == Invoke(r, TRUE) \/ Invoke(r, FALSE)

\* webhook deliveries of every body, the two queries and revocations, one
\* request after the other
NextLive ==
    \/ \E r \in First : WebhookStep(r, BOOLEAN)
    \/ \E r \in First : QueryStep(r, BOOLEAN)
    \/ \E r \in Req : Close(r)
    \/ Idle /\ Revoke

\* every store call eventually invokes its callback (one request is open at
\* a time, so one store call is pending at a time)
LiveSpec ==
    /\ Init /\ [][NextLive]_vars
    /\ WF_vars(\E r \in First : Callback(r))

\* ------------------------------------------------------- every operation
\* a user-products request of the buyer takes its next step
ReconcileStep(r, errs) ==
    \/ UserProductsReceive(r, "a@b.com")
    \/ \E err \in errs : UserAccessCb(r, err)
    \/ \E err \in errs : AllProductsCb(r, err)

\* the product created is updated
UpdateCreated ==
    \E productId \in (Len(SampleProducts) + 1)..MaxProducts,
       body \in ProductBodies, err \in BOOLEAN :
            UpdateProduct(productId, body, err)

\* deliveries of approved events, the two queries, grants inserted and
\* revoked by hand and catalog edits with one product created, one request
\* after the other
NextAudit ==
    \/ \E r \in First : ApprovedStep(r, BOOLEAN)
    \/ \E r \in First : CheckStep(r, BOOLEAN)
    \/ \E r \in First : ReconcileStep(r, BOOLEAN)
    \/ \E r \in Req : Close(r)
    \/ Idle /\ Simulate
    \/ Idle /\ Revoke
    \/ Idle /\ Len(products) = Len(SampleProducts) /\ Create
    \/ Idle /\ UpdateCreated
    \/ Idle /\ Delete

AuditSpec == Init /\ [][NextAudit]_vars

\* ------------------------------------------------------------------- claims
\* request r carries an approved event with email and plan code
Complete(r) ==
    /\ req[r].kind = "object"
    /\ req[r].sale_status_enum_key = "approved"
    /\ ~ Falsy(req[r].email)
    /\ ~ Falsy(req[r].plan_code)

\* the rows of a pair, whatever their status, and its active grants
RowsOfPair(email, code) ==
    {i \in DOMAIN user_access : /\ user_access[i].email = email
                                /\ user_access[i].plan_code = code}

ActiveOfPair(email, code) ==
    {i \in RowsOfPair(email, code) : user_access[i].status = "active"}

\* the same for the pair of request r
RowsOf(r) == RowsOfPair(req[r].email, req[r].plan_code)

ActiveOf(r) == ActiveOfPair(req[r].email, req[r].plan_code)

\* request r takes a step
Stepped(r) == <<pc[r], req[r], res[r]>>' # <<pc[r], req[r], res[r]>>

\* C1: when concurrent deliveries of approved events have all been answered
\* (RaceSpec: webhook deliveries only, no store error, store empty at first),
\* every pair that was delivered has exactly one active grant.
C1_OneActiveAfterRace ==
    Quiet => \A r \in Req :
        (pc[r] = "done" /\ Complete(r)) => Cardinality(ActiveOf(r)) = 1

\* C2: when approved events are delivered one after another without store
\* errors (ReplaySpec), every answered delivery has answered success and its
\* pair has exactly one active grant.
C2_ReplayIdempotent ==
    \A r \in Req :
        (pc[r] = "done" /\ Complete(r)) =>
            /\ res[r].status = 200
            /\ res[r].success
            /\ Cardinality(ActiveOf(r)) = 1

\* a later delivery of the pair was skipped and the pair has one active grant
C2_Witness ==
    \E r \in Req :
        /\ pc[r] = "done" /\ Complete(r)
        /\ res[r].message = "Acesso ja existente"
        /\ Cardinality(ActiveOf(r)) = 1

\* C3: in every reachable state each (email, plan_code) pair has at most one
\* active row in user_access.
C3_AtMostOneActive ==
    \A email \in EmailVals, code \in PlanVals :
        Cardinality(ActiveOfPair(email, code)) <= 1

\* C4: a step of a webhook delivery whose store call fails answers the
\* request with a server error and leaves user_access unchanged; it never
\* goes on to the insert.
C4_StoreErrorSurfaces ==
    [][\A r \in Req :
          (pc[r] \in {"product", "check", "insert"} /\ Stepped(r) /\ req'[r].err)
          => /\ pc'[r] = "done"
             /\ res'[r].status = 500
             /\ ~ res'[r].success
             /\ user_access' = user_access]_vars

\* C5: an event whose status is present and is not "approved" is answered
\* with success at once, whatever its other fields, and the step that
\* handles it leaves user_access unchanged.
C5_NonApprovedIsNoOp ==
    [][\A r \in Req :
          (/\ req'[r].kind = "object"
           /\ req'[r].sale_status_enum_key \notin {Undefined, "approved"})
          => /\ pc'[r] = "done"
             /\ res'[r].status = 200
             /\ res'[r].success
             /\ Stepped(r) => user_access' = user_access]_vars

\* a declined event without email and plan code was acknowledged while the
\* store holds a grant
C5_Witness ==
    \E r \in Req :
        /\ pc[r] = "done"
        /\ req[r].sale_status_enum_key = "declined"
        /\ req[r].email = Undefined
        /\ res[r].status = 200
        /\ user_access # << >>

\* C6: an approved event whose email or plan code is absent or empty is
\* answered with status 400 at once, and the step that handles it leaves
\* user_access unchanged.
C6_MissingFieldRejected ==
    [][\A r \in Req :
          (/\ req'[r].kind = "object"
           /\ req'[r].sale_status_enum_key = "approved"
           /\ (Falsy(req'[r].email) \/ Falsy(req'[r].plan_code)))
          => /\ pc'[r] = "done"
             /\ res'[r].status = 400
             /\ ~ res'[r].success
             /\ Stepped(r) => user_access' = user_access]_vars

\* an approved event with an email and an empty plan code was rejected
C6_Witness ==
    \E r \in Req :
        /\ pc[r] = "done"
        /\ req[r].sale_status_enum_key = "approved"
        /\ req[r].email = "a@b.com"
        /\ req[r].plan_code = ""
        /\ res[r].status = 400

\* C7: a request whose body is absent, null, an array or unparseable is
\* answered with a client error, never with success or a server error.
C7_MalformedIsClientError ==
    \A r \in Req :
        (pc[r] = "done" /\ req[r].kind \in {"absent", "null", "array", "unparseable"})
        => res[r].status = 400 /\ ~ res[r].success

\* C8: every successful response to an approved event with email and plan
\* code carries the grant identifier, the plan name, the email and the plan
\* code, for a new grant and for a skipped duplicate alike.
C8_SuccessEchoesGrant ==
    \A r \in Req :
        (pc[r] = "done" /\ Complete(r) /\ res[r].success)
        => /\ res[r].access_id \in DOMAIN user_access
           /\ res[r].plan = req[r].plan_name
           /\ res[r].email = req[r].email
           /\ res[r].plan_code = req[r].plan_code

\* C9: a delivery that finds its pair with an active grant (SerialSpec: no
\* other request runs meanwhile) is answered with success and the identifier
\* of an active grant of the pair, and none of its steps changes user_access.
C9_DuplicateLeavesStore ==
    [][\A r \in Req :
          (pc[r] \in {"check", "insert"} /\ Stepped(r) /\ ActiveOf(r) # {})
          => /\ pc'[r] = "done"
             /\ res'[r].success
             /\ res'[r].access_id \in ActiveOf(r)
             /\ user_access' = user_access]_vars

\* C10: for a delivery whose pair has rows in user_access, all of them
\* revoked: the lookup does not answer the request as a duplicate, and the
\* insert, when the store accepts it, appends one active row of the pair and
\* leaves every earlier row as it was.
C10_RevokedIsNotExisting ==
    [][\A r \in Req :
          (RowsOf(r) # {} /\ ActiveOf(r) = {} /\ Stepped(r))
          => /\ pc[r] = "check" => pc'[r] = "insert" /\ user_access' = user_access
             /\ (pc[r] = "insert" /\ res'[r].status = 200)
                => /\ Len(user_access') = Len(user_access) + 1
                   /\ SubSeq(user_access', 1, Len(user_access)) = user_access
                   /\ user_access'[Len(user_access')].status = "active"
                   /\ user_access'[Len(user_access')].email = req[r].email
                   /\ user_access'[Len(user_access')].plan_code = req[r].plan_code
                   /\ res'[r].access_id = Len(user_access')]_vars

\* the pair has a revoked row and a later active row, and the delivery that
\* created the active row was answered with its identifier
C10_Witness ==
    \E r \in Req : \E i, j \in DOMAIN user_access :
        /\ pc[r] = "done" /\ Complete(r)
        /\ i < j /\ RowsOf(r) = {i, j}
        /\ user_access[i].status = "revoked"
        /\ user_access[j].status = "active"
        /\ res[r].message = "Acesso liberado com sucesso"
        /\ res[r].access_id = j

\* request r is answered by this step, by the callback it awaited at `from`
Answers(r, from) == pc[r] = from /\ pc'[r] = "done"

\* request r of the given route has been answered
Answered(r, route) == pc[r] = "done" /\ req[r].kind = route

\* C11: when every grant of a pair (email, plan code) is revoked, a
\* check-access of the pair answers hasAccess = false, and the user-products
\* answer for the email neither lists the plan code in activePlans nor
\* flags a product with that plan code as the matched plan.
C11_RevokedNeverCounts ==
    [][\A r \in Req :
        /\ ( /\ Answers(r, "access")
             /\ res'[r].success
             /\ RowsOfPair(req[r].email, req[r].plano_code) # {}
             /\ ActiveOfPair(req[r].email, req[r].plano_code) = {} )
           => ~ res'[r].hasAccess
        /\ (Answers(r, "all_products") /\ res'[r].success)
           => \A code \in PlanVals :
                ( /\ RowsOfPair(req[r].email, code) # {}
                  /\ ActiveOfPair(req[r].email, code) = {} )
                => /\ code \notin res'[r].activePlans
                   /\ \A i \in DOMAIN res'[r].products :
                        res'[r].products[i].accessPlan # code
                   /\ \A i \in DOMAIN res'[r].userProducts :
                        res'[r].userProducts[i].accessPlan # code
    ]_vars

\* user-products answered an email whose PPLQQLST6 grants are all revoked
\* and whose PX grant is active: PX is listed, a product is owned through it
C11_Witness ==
    \E r \in Req :
        /\ Answered(r, "user-products") /\ res[r].status = 200
        /\ RowsOfPair(req[r].email, "PPLQQLST6") # {}
        /\ ActiveOfPair(req[r].email, "PPLQQLST6") = {}
        /\ res[r].activePlans = {"PX"}
        /\ Len(res[r].userProducts) > 0
        /\ \E i \in DOMAIN res[r].products :
            /\ res[r].products[i].plano_1 = "PPLQQLST6"
            /\ ~ res[r].products[i].userHasAccess

\* C12: a check-access of a non-empty email and plan code that the store
\* answers has hasAccess = true exactly when user_access holds an active row
\* with that email and that plan code, whether or not a product of the
\* catalog declares the plan.
C12_AccessIffActiveGrant ==
    [][\A r \in Req :
        (Answers(r, "access") /\ res'[r].success)
        => /\ ~ Falsy(req[r].email) /\ ~ Falsy(req[r].plano_code)
           /\ res'[r].hasAccess
                <=> ActiveOfPair(req[r].email, req[r].plano_code) # {}
    ]_vars

\* access was confirmed for a plan that no product of the catalog declares
C12_Witness ==
    \E r \in Req :
        /\ Answered(r, "check-access") /\ res[r].status = 200
        /\ res[r].hasAccess
        /\ Declaring(req[r].plano_code) = {}
        /\ ActiveOfPair(req[r].email, req[r].plano_code) # {}

\* the plan codes of the active grants of an email
ActivePlansOf(email) ==
    {user_access[i].plan_code :
        i \in {j \in DOMAIN user_access : /\ user_access[j].email = email
                                          /\ user_access[j].status = "active"}}

\* the populated plan slots of a product
Slots(p) == {p.plano_1, p.plano_2, p.plano_3} \ {Null, Undefined, ""}

\* the identifiers of the entries of a list of products, in order
Ids(list) == [i \in DOMAIN list |-> list[i].id]

\* C16: in the user-products answer for a non-empty email, a product is
\* flagged userHasAccess exactly when one of its populated plan slots is the
\* plan code of an active grant of that email; an empty slot never matches.
C16_FlagIffSlotGranted ==
    [][\A r \in Req :
        (Answers(r, "all_products") /\ res'[r].success)
        => /\ ~ Falsy(req[r].email)
           /\ \A i \in DOMAIN res'[r].products :
                res'[r].products[i].userHasAccess
                    <=> Slots(res'[r].products[i])
                            \cap ActivePlansOf(req[r].email) # {}
    ]_vars

\* a product with an empty first slot is owned through a later slot, beside
\* a product with populated slots that is not owned
C16_Witness ==
    \E r \in Req :
        /\ Answered(r, "user-products") /\ res[r].status = 200
        /\ \E i, j \in DOMAIN res[r].products :
            /\ res[r].products[i].plano_1 = Null
            /\ res[r].products[i].userHasAccess
            /\ Slots(res[r].products[j]) # {}
            /\ ~ res[r].products[j].userHasAccess

\* C17: a product whose second slot is the plan code of an active grant of
\* the email, its first slot matching no active grant, is in userProducts
\* and its accessPlan is the plan code of that second slot, in products and
\* in userProducts.
C17_SecondSlotReported ==
    [][\A r \in Req :
        (Answers(r, "all_products") /\ res'[r].success)
        => \A i \in DOMAIN res'[r].products :
             LET p == res'[r].products[i]
             IN  ( /\ p.plano_2 \in ActivePlansOf(req[r].email)
                   /\ p.plano_1 \notin ActivePlansOf(req[r].email) )
                 => /\ p.userHasAccess
                    /\ p.accessPlan = p.plano_2
                    /\ p.accessPlan # p.plano_1
                    /\ \E j \in DOMAIN res'[r].userProducts :
                         /\ res'[r].userProducts[j].id = p.id
                         /\ res'[r].userProducts[j].accessPlan = p.plano_2
    ]_vars

\* a product with PPLQQLST6 in the first slot and PX in the second is owned
\* by an email whose only active grant is for PX
C17_Witness ==
    \E r \in Req :
        /\ Answered(r, "user-products") /\ res[r].status = 200
        /\ ActivePlansOf(req[r].email) = {"PX"}
        /\ \E j \in DOMAIN res[r].userProducts :
            /\ res[r].userProducts[j].plano_1 = "PPLQQLST6"
            /\ res[r].userProducts[j].plano_2 = "PX"
            /\ res[r].userProducts[j].accessPlan = "PX"

\* C18: the user-products answer for a non-empty email without active grant
\* has every product of the catalog once in products, each with
\* userHasAccess false, and an empty userProducts.
C18_NoGrantNoOwnership ==
    [][\A r \in Req :
        ( /\ Answers(r, "all_products") /\ res'[r].success
          /\ ActivePlansOf(req[r].email) = {} )
        => /\ Len(res'[r].products) = Cardinality(Live)
           /\ {res'[r].products[i].id : i \in DOMAIN res'[r].products}
                = {p.id : p \in Live}
           /\ \A i \in DOMAIN res'[r].products :
                ~ res'[r].products[i].userHasAccess
           /\ res'[r].userProducts = << >>
    ]_vars

\* an email whose grants are all revoked, or that never had one, got the
\* three products of the catalog, one of them declaring a plan it once held
C18_Witness ==
    \E r \in Req :
        /\ Answered(r, "user-products") /\ res[r].status = 200
        /\ ActivePlansOf(req[r].email) = {}
        /\ Len(res[r].products) = 3
        /\ res[r].userProducts = << >>
        /\ \E i \in DOMAIN res[r].products, g \in DOMAIN user_access :
            user_access[g].plan_code \in Slots(res[r].products[i])

\* C19: a user-products request with an empty or absent email is answered
\* with success, every product of the catalog in products with
\* userHasAccess false, no active plan and an empty userProducts.
C19_MissingEmailBrowsable ==
    \A r \in Req :
        (Answered(r, "user-products") /\ Falsy(req[r].email))
        => /\ res[r].status = 200 /\ res[r].success
           /\ res[r].userProducts = << >>
           /\ {res[r].products[i].id : i \in DOMAIN res[r].products}
                = {p.id : p \in Live}
           /\ \A i \in DOMAIN res[r].products :
                ~ res[r].products[i].userHasAccess
           /\ "activePlans" \in DOMAIN res[r]
           /\ res[r].activePlans = {}

\* C20: in the user-products answer, userProducts holds the products flagged
\* userHasAccess, in the order they have in products, each with category
\* 'meus_produtos'; every entry of products has the category of its row in
\* the products table.
C20_OwnedCopiesRecategorised ==
    [][\A r \in Req :
        (Answers(r, "all_products") /\ res'[r].success)
        => LET all == res'[r].products
               owned == res'[r].userProducts
           IN  /\ Ids(owned) = Ids(SelectSeq(all, LAMBDA p : p.userHasAccess))
               /\ \A j \in DOMAIN owned : owned[j].category = "meus_produtos"
               /\ \A i \in DOMAIN all :
                    all[i].category = products[all[i].id].category
    ]_vars

\* two products are owned, the first of them filed under 'mais_vendidos' in
\* the catalog, with a product that is not owned listed between them
C20_Witness ==
    \E r \in Req :
        /\ Answered(r, "user-products") /\ res[r].status = 200
        /\ Len(res[r].products) = 3
        /\ res[r].products[1].userHasAccess
        /\ res[r].products[1].category = "mais_vendidos"
        /\ ~ res[r].products[2].userHasAccess
        /\ res[r].products[3].userHasAccess
        /\ Len(res[r].userProducts) = 2
        /\ res[r].userProducts[1].category = "meus_produtos"
        /\ res[r].userProducts[1].id = res[r].products[1].id

\* the identifiers, as stored in a TEXT column, of the products that declare
\* a plan code in one of their slots
DeclaredBy(code) ==
    {ToString(products[i].id) :
        i \in {j \in DOMAIN products : /\ products[j].id # NoId
                                       /\ code \in Slots(products[j])}}

\* the product reference the catalog gives a plan code
ReferenceOk(code, product_code) ==
    IF DeclaredBy(code) = {} THEN product_code = code
                             ELSE product_code \in DeclaredBy(code)

\* C14: the product lookup of an approved delivery ends the request only
\* when the store fails; otherwise the delivery goes on with the plan code
\* as product reference when no product declares the plan, and with the
\* identifier of a declaring product when one does, and the row it inserts
\* is active and carries that reference.
C14_ProductReference ==
    [][\A r \in Req :
        /\ (pc[r] = "product" /\ pc'[r] = "done") => req'[r].err
        /\ (pc[r] = "product" /\ pc'[r] = "check")
           => ReferenceOk(req[r].plan_code, req'[r].product_code)
        /\ (Answers(r, "insert") /\ res'[r].success)
           => /\ Len(user_access') = Len(user_access) + 1
              /\ LET row == user_access'[Len(user_access')]
                 IN  /\ row.status = "active"
                     /\ row.email = req[r].email
                     /\ row.plan_code = req[r].plan_code
                     /\ ReferenceOk(row.plan_code, row.product_code)
    ]_vars

\* a delivery was just answered with a new grant for a plan that no product
\* declares, referring to the plan code, beside an earlier grant that
\* refers to a product by its identifier
C14_Witness ==
    \E r \in Req, i, j \in DOMAIN user_access :
        /\ pc[r] = "done" /\ Complete(r) /\ res[r].access_id = i
        /\ res[r].message = "Acesso liberado com sucesso"
        /\ DeclaredBy(user_access[i].plan_code) = {}
        /\ user_access[i].product_code = user_access[i].plan_code
        /\ user_access[i].status = "active"
        /\ user_access[j].product_code \in DeclaredBy(user_access[j].plan_code)

\* C15: two deliveries for the same plan code that are both past their
\* product lookup, the catalog being the same for both (ResolveSpec edits
\* the catalog only while no request is open), have the same product
\* reference.
C15_ResolutionDeterministic ==
    \A r, q \in Req :
        ( /\ pc[r] \in {"check", "insert"} /\ pc[q] \in {"check", "insert"}
          /\ req[r].plan_code = req[q].plan_code )
        => req[r].product_code = req[q].product_code

\* C13: when a delivery of an approved event for (email, plan code) has been
\* answered with success and the grant it named is still active, a
\* check-access of that pair answered afterwards by the store has
\* hasAccess = true, whatever deliveries, revocations of other grants and
\* catalog edits came in between.
C13_GrantedStaysAccessible ==
    [][\A q, r \in Req :
        ( /\ pc[q] = "done" /\ Complete(q)
          /\ res[q].status = 200 /\ res[q].success
          /\ res[q].access_id \in DOMAIN user_access
          /\ user_access[res[q].access_id].status = "active"
          /\ Answers(r, "access") /\ res'[r].success
          /\ req[r].email = req[q].email
          /\ req[r].plano_code = req[q].plan_code )
        => res'[r].hasAccess
    ]_vars

\* access is confirmed for the pair of an answered delivery after the
\* product it resolved to was deleted and another plan was delivered and
\* its grant revoked
C13_Witness ==
    \E q, r \in Req :
        /\ pc[q] = "done" /\ Complete(q) /\ res[q].success
        /\ res[q].access_id = 1
        /\ user_access[1].status = "active"
        /\ user_access[1].product_code = "1"
        /\ products[1] = NoProduct
        /\ Len(user_access) = 2
        /\ user_access[2].plan_code # user_access[1].plan_code
        /\ user_access[2].status = "revoked"
        /\ Answered(r, "check-access") /\ res[r].status = 200
        /\ req[r].email = req[q].email
        /\ req[r].plano_code = req[q].plan_code
        /\ res[r].hasAccess

\* C21: no operation removes a grant row and the ids handed out only grow:
\* every step keeps each existing row at its id, either unchanged or with
\* its status taken from "active" to "revoked", and never shortens the table.
C21_GrantsNeverRemoved ==
    [][/\ Len(user_access') >= Len(user_access)
       /\ \A i \in DOMAIN user_access :
             \/ user_access'[i] = user_access[i]
             \/ /\ user_access[i].status = "active"
                /\ user_access'[i] = [user_access[i] EXCEPT !.status = "revoked"]]_vars

\* a revoked grant below a later one, after the catalog's product was deleted
C21_Witness ==
    /\ Len(user_access) = 2
    /\ user_access[1].status = "revoked"
    /\ user_access[2].status = "active"
    /\ \E p \in DOMAIN products : products[p] = NoProduct

\* the media rows stored for a product, by ordinal, as [type, url,
\* order_index]
StoredMedia(productId) ==
    LET rows == OrderByIndex({row \in Range(product_media) :
                                    row.product_id = productId})
    IN  [i \in DOMAIN rows |-> [type |-> rows[i].type, url |-> rows[i].url,
                                order_index |-> rows[i].order_index]]

\* request r gets the answer of the product list or of user-products that
\* carries the products
ListAnswers(r) ==
    /\ Answers(r, "products") \/ Answers(r, "all_products")
    /\ res'[r].success

\* the text holds "},{"
HasDelimiter(text) ==
    \E i \in 1..(Len(text) - 2) :
        text[i] = "}" /\ text[i + 1] = "," /\ text[i + 2] = "{"

\* C22: the gallery an answer carries for a product with stored media is
\* the stored items, each with its kind, url and ordinal exactly as stored,
\* whatever characters the urls hold (a comma, a quote, the text "},{").
C22_GalleryAsStored ==
    [][\A r \in Req : ListAnswers(r) =>
        \A i \in DOMAIN res'[r].products :
            StoredMedia(res'[r].products[i].id) # << >>
                => res'[r].products[i].gallery
                        = StoredMedia(res'[r].products[i].id)]_vars

C24_OrderedNeverEmpty ==
    [][\A r \in Req : ListAnswers(r) =>
        \A i \in DOMAIN res'[r].products :
            LET gallery == res'[r].products[i].gallery
            IN  StoredMedia(res'[r].products[i].id) # << >> =>
                    /\ \A j, k \in DOMAIN gallery :
                            j < k => gallery[j].order_index < gallery[k].order_index
                    /\ gallery # << >>]_vars

\* C25: a delivered event that has no status field but has an email and a
\* plan code is not answered as a skipped status: only a status that is
\* present and different from "approved" is skipped.
C25_AbsentStatusNotSkipped ==
    \A r \in Req :
        ( /\ pc[r] = "done"
          /\ req[r].kind = "object"
          /\ req[r].sale_status_enum_key = Undefined
          /\ ~ Falsy(req[r].email)
          /\ ~ Falsy(req[r].plan_code) )
            => res[r] # Response(200, TRUE, "Status nao processado")

\* C26: every grant row is inserted by the webhook handler answering an
\* approved event with the row's email and plan code: a step that adds a row
\* is the insert of such a delivery.
C26_GrantsOnlyFromWebhook ==
    [][Len(user_access') > Len(user_access) =>
        \E r \in Req :
            /\ Answers(r, "insert")
            /\ Complete(r)
            /\ user_access'[Len(user_access')].email = req[r].email
            /\ user_access'[Len(user_access')].plan_code = req[r].plan_code]_vars

\* C27: creating, updating and deleting products leaves every grant row as
\* it is (a row keeps the plan code it took as reference when a product
\* declaring the plan is created later, and keeps its reference when that
\* product is deleted), and check-access of a pair with an active grant
\* answers hasAccess = true whatever the catalog holds.
C27_CatalogLeavesGrants ==
    [][/\ (products' # products \/ product_media' # product_media)
            => user_access' = user_access
       /\ \A r \in Req :
            ( /\ Answers(r, "access")
              /\ res'[r].success
              /\ ActiveOfPair(req[r].email, req[r].plano_code) # {} )
                => res'[r].hasAccess]_vars

\* the product a grant refers to is deleted, a product declaring the plan of
\* a grant that refers to its plan code was created, and check-access of
\* the first grant's pair answered true
C27_Witness ==
    /\ Len(user_access) = 2
    /\ user_access[1].product_code = "1"
    /\ user_access[1].status = "active"
    /\ products[1] = NoProduct
    /\ user_access[2].product_code = user_access[2].plan_code
    /\ user_access[2].payment_id = "PAY1"
    /\ Declaring(user_access[2].plan_code) # {}
    /\ \E r \in Req :
        /\ Answered(r, "check-access")
        /\ req[r].email = user_access[1].email
        /\ req[r].plano_code = user_access[1].plan_code
        /\ res[r].success
        /\ res[r].hasAccess

\* C28: every row of product_media belongs to a product the products table
\* holds: deleting a product removes all its media with it.
C28_MediaBelongsToProduct ==
    \A i \in DOMAIN product_media :
        \E p \in Live : p.id = product_media[i].product_id

\* C29: every webhook, check-access and user-products request is answered
\* exactly once when each store call eventually invokes its callback: a
\* request that has arrived and is not answered yet is eventually answered,
\* and a response is written only by the step that finishes the request.
C29_AnsweredExactlyOnce ==
    /\ \A r \in Req : (pc[r] \notin {"idle", "done"}) ~> (pc[r] = "done")
    /\ [][\A r \in Req :
            res'[r] # res[r] =>
                \/ pc[r] # "done" /\ pc'[r] = "done" /\ res[r] = NoRes
                \/ res'[r] = NoRes]_vars

\* a user-products request answered after its two store calls, for a buyer
\* whose grant an earlier delivery inserted after its three
C29_Witness ==
    \E r \in Req :
        /\ Answered(r, "user-products")
        /\ res[r].success
        /\ "activePlans" \in DOMAIN res[r]
        /\ res[r].activePlans # {}
        /\ \E i \in DOMAIN user_access : user_access[i].payment_id = "PAY1"

\* C30: the webhook revisions kept in the repository leave the same grants:
\* when every delivered event has been handled by each of them, each pair
\* (email, plan code) has as many active grants in the table of an older
\* revision as in the table of the current one.
C30_RevisionsAgree ==
    Idle => \A rev \in Revisions, email \in EmailVals, code \in PlanVals :
                Cardinality(ActiveIds(revisions.store[rev], email, code))
                    = Cardinality(ActiveOfPair(email, code))

====
